---- MODULE Spec2Model ----
(***************************************************************************)
(* strip-recommended.py: read src/lib/models.ts, delete the lines holding  *)
(* "recommended: true|false", clean up commas, write the file back.        *)
(*                                                                         *)
(* A text is a sequence of lexemes.  The three patterns of the script only *)
(* tell apart: the literal "recommended:", the literals "true" and         *)
(* "false", a comma, a closing brace, the whitespace characters, and any   *)
(* other run of characters.  Each of these is one element of a text, so a  *)
(* text of a few elements covers the cases the patterns distinguish.  No   *)
(* substitution can assemble a literal out of pieces: a deleted line span  *)
(* begins at a line start and ends with a line feed, the comma collapse    *)
(* leaves a comma where it deleted, and the brace cleanup leaves a brace.  *)
(***************************************************************************)
EXTENDS Integers, Sequences, FiniteSets, TLC

VARIABLES
    fstate,     \* what the target file is to the OS: ok, missing, unreadable, ...
    disk,       \* the characters stored in src/lib/models.ts
    content,    \* the script's variable `content`
    handles,    \* the file objects currently open ("r": line 4, "w": line 15)
    printed,    \* lines written to standard output by this process
    exitStatus, \* -1 while the process runs, then its exit status
    trace,      \* the steps this process has performed, in order
    pc          \* the statement the process executes next

vars == <<fstate, disk, content, handles, printed, exitStatus, trace, pc>>

----------------------------------------------------------------------------
(* Bounds of the model *)

\* longest text enumerated for a readable, decodable, writable file
MaxLen == 5

\* longest text enumerated for a file the script fails on
MaxFailLen == 1

----------------------------------------------------------------------------
(* Characters and texts *)

REC == "recommended:"

\* what \s matches among the characters of the model
Whitespace == {" ", "\t", "\n", "\r"}

\* the characters a stored file is enumerated over
Alphabet == {REC, "true", "false", ",", " ", "\n", "\r", "}", "x"}

Texts(n) == UNION {[1..k -> Alphabet] : k \in 0..n}

\* Example 2 of the spec: foo: 1,\n  recommended: false,\n  bar: 2,\n}
Example2 ==
    <<"foo:", " ", "1", ",", "\n",
      " ", " ", REC, " ", "false", ",", "\n",
      " ", " ", "bar:", " ", "2", ",", "\n", "}">>

\* Example 4 of the spec: a: 1,,\n  b: 2
Example4 ==
    <<"a:", " ", "1", ",", ",", "\n", " ", " ", "b:", " ", "2">>

\* a flag line after a line ending in three commas, stored with CR LF
ExampleCRLF ==
    <<"x", ",", ",", ",", "\r", "\n", REC, " ", "true", ",", "\r", "\n", "y">>

\* a line ending in two commas, then two flag lines with a blank line
\* between them, the first split over two lines, then a closing brace
ExampleSplit ==
    <<"{", "\n", "x", ",", " ", ",", "\n",
      REC, "\n", "true", ",", "\n", "\n", "\t", REC, "false", "\n", "}">>

\* a flag line followed by two commas
ExampleDoubleComma ==
    <<"x", "\n", " ", REC, " ", "true", ",", ",", "\n", "}">>

Examples == {Example2, Example4, ExampleCRLF, ExampleSplit, ExampleDoubleComma}

----------------------------------------------------------------------------
(* Line 5: f.read() of a file opened in text mode with the default         *)
(* newline=None: "\r\n" and a lone "\r" are both read as "\n".             *)

RECURSIVE ReadFrom(_, _)
ReadFrom(s, i) ==
    IF i > Len(s) THEN <<>>
    ELSE IF s[i] = "\r"
         THEN IF i < Len(s) /\ s[i + 1] = "\n"
              THEN <<"\n">> \o ReadFrom(s, i + 2)
              ELSE <<"\n">> \o ReadFrom(s, i + 1)
         ELSE <<s[i]>> \o ReadFrom(s, i + 1)

UniversalNewlines(s) == ReadFrom(s, 1)

----------------------------------------------------------------------------
(* The regular expressions of lines 8, 11 and 12 *)

\* greedy \s* from position i: the first position at or after i that holds
\* no whitespace (Len(s) + 1 when the text ends first)
RECURSIVE SkipSpace(_, _)
SkipSpace(s, i) ==
    IF i <= Len(s) /\ s[i] \in Whitespace THEN SkipSpace(s, i + 1) ELSE i

\* ^ under re.MULTILINE: the start of the text or just after a line feed
AtLineStart(s, i) == i = 1 \/ s[i - 1] = "\n"

Max(S) == CHOOSE m \in S : \A k \in S : k <= m

\* variant of the alternation of line 8 with `false` left out
FlagValuesTrueOnly == {"true"}

\* Line 8: the alternation (?:true|false)
FlagValues == {"true", "false"}

\* Line 8, r'^\s*recommended:\s*(?:true|false),?\s*$\n' matched at i: the
\* position of the last character of the match, 0 when there is none.
\* Each \s* is greedy and what follows it is no whitespace, except for the
\* last one: it gives characters back until a line feed is left for $\n,
\* so the match ends at the last line feed of the whitespace run.
LineMatchEnd(s, i) ==
    IF ~AtLineStart(s, i) THEN 0
    ELSE LET a == SkipSpace(s, i)
         IN  IF a > Len(s) \/ s[a] # REC THEN 0
             ELSE LET b == SkipSpace(s, a + 1)
                  IN  IF b > Len(s) \/ s[b] \notin FlagValues THEN 0
                      ELSE LET c == IF b < Len(s) /\ s[b + 1] = ","
                                    THEN b + 2 ELSE b + 1
                               d == SkipSpace(s, c)
                               nl == {j \in c..(d - 1) : s[j] = "\n"}
                           IN  IF nl = {} THEN 0 ELSE Max(nl)

\* re.sub(pattern, '', content): scan left to right, delete each match and
\* go on after it, keep a character no match starts at
RECURSIVE StripFrom(_, _)
StripFrom(s, i) ==
    IF i > Len(s) THEN <<>>
    ELSE LET e == LineMatchEnd(s, i)
         IN  IF e > 0 THEN StripFrom(s, e + 1)
             ELSE <<s[i]>> \o StripFrom(s, i + 1)

StripRecommended(s) == StripFrom(s, 1)

\* Line 11, r',\s*,' matched at i: the position of the second comma, or 0
CommaPairEnd(s, i) ==
    IF s[i] # "," THEN 0
    ELSE LET q == SkipSpace(s, i + 1)
         IN  IF q <= Len(s) /\ s[q] = "," THEN q ELSE 0

\* re.sub(r',\s*,', ',', content)
RECURSIVE CollapseFrom(_, _)
CollapseFrom(s, i) ==
    IF i > Len(s) THEN <<>>
    ELSE LET e == CommaPairEnd(s, i)
         IN  IF e > 0 THEN <<",">> \o CollapseFrom(s, e + 1)
             ELSE <<s[i]>> \o CollapseFrom(s, i + 1)

\* variant of line 11 with the second comma left out of the pattern,
\* r',\s*': the whitespace after every comma goes
RECURSIVE CollapseLooseFrom(_, _)
CollapseLooseFrom(s, i) ==
    IF i > Len(s) THEN <<>>
    ELSE IF s[i] = "," THEN <<",">> \o CollapseLooseFrom(s, SkipSpace(s, i + 1))
    ELSE <<s[i]>> \o CollapseLooseFrom(s, i + 1)

CollapseLoose(s) == CollapseLooseFrom(s, 1)

\* variant of line 11 that substitutes again until no pair of commas is left
RECURSIVE CollapseRepeated(_)
CollapseRepeated(s) ==
    IF CollapseFrom(s, 1) = s THEN s ELSE CollapseRepeated(CollapseFrom(s, 1))

CollapseCommas(s) == CollapseFrom(s, 1)

\* variant of line 12 with \s* left out of the pattern, r',(})'
CommaBraceEndAdjacent(s, i) ==
    IF s[i] = "," /\ i < Len(s) /\ s[i + 1] = "}" THEN i + 1 ELSE 0

\* Line 12, r',(\s*})' matched at i: the position of the brace, or 0
CommaBraceEnd(s, i) ==
    IF s[i] # "," THEN 0
    ELSE LET q == SkipSpace(s, i + 1)
         IN  IF q <= Len(s) /\ s[q] = "}" THEN q ELSE 0

\* re.sub(r',(\s*})', r'\1', content): group 1 is what follows the comma
RECURSIVE TrailingFrom(_, _)
TrailingFrom(s, i) ==
    IF i > Len(s) THEN <<>>
    ELSE LET e == CommaBraceEnd(s, i)
         IN  IF e > 0 THEN SubSeq(s, i + 1, e) \o TrailingFrom(s, e + 1)
             ELSE <<s[i]>> \o TrailingFrom(s, i + 1)

\* variant of line 12 with an empty replacement instead of r'\1': the
\* whitespace and the brace go with the comma
RECURSIVE DropMatchFrom(_, _)
DropMatchFrom(s, i) ==
    IF i > Len(s) THEN <<>>
    ELSE LET e == CommaBraceEnd(s, i)
         IN  IF e > 0 THEN DropMatchFrom(s, e + 1)
             ELSE <<s[i]>> \o DropMatchFrom(s, i + 1)

DropMatchBeforeBrace(s) == DropMatchFrom(s, 1)

DropCommaBeforeBrace(s) == TrailingFrom(s, 1)

\* lines 8 to 12 together
Transform(s) == DropCommaBeforeBrace(CollapseCommas(StripRecommended(s)))

----------------------------------------------------------------------------
(* The process *)

FileStates == {"ok", "missing", "unreadable", "undecodable", "readonly"}

Init ==
    /\ fstate \in FileStates
    /\ disk \in CASE fstate = "ok" -> Texts(MaxLen) \cup Examples
                  [] fstate = "missing" -> {<<>>}
                  [] OTHER -> Texts(MaxFailLen)
    /\ content = <<>>
    /\ handles = {}
    /\ printed = 0
    /\ exitStatus = -1
    /\ trace = <<>>
    /\ pc = "open_r"

\* variant of the failure path: the exception is swallowed and the process
\* ends with exit status 0
AbortExitZero ==
    /\ pc' = "failed"
    /\ exitStatus' = 0

\* an exception nobody catches: traceback on stderr, exit status 1
Abort ==
    /\ pc' = "failed"
    /\ exitStatus' = 1

\* line 4: open(..., 'r', encoding='utf-8')
OpenRead ==
    /\ pc = "open_r"
    /\ fstate \notin {"missing", "unreadable"}
    /\ handles' = handles \cup {"r"}
    /\ trace' = Append(trace, "open_r")
    /\ pc' = "read"
    /\ UNCHANGED <<fstate, disk, content, printed, exitStatus>>

\* line 4 raising FileNotFoundError or PermissionError
OpenReadFail ==
    /\ pc = "open_r"
    /\ fstate \in {"missing", "unreadable"}
    /\ Abort
    /\ UNCHANGED <<fstate, disk, content, handles, printed, trace>>

\* line 5: content = f.read()
ReadAll ==
    /\ pc = "read"
    /\ fstate # "undecodable"
    /\ content' = UniversalNewlines(disk)
    /\ trace' = Append(trace, "read")
    /\ pc' = "close_r"
    /\ UNCHANGED <<fstate, disk, handles, printed, exitStatus>>

\* line 5 raising UnicodeDecodeError: the with statement closes f on the way out
ReadFail ==
    /\ pc = "read"
    /\ fstate = "undecodable"
    /\ handles' = handles \ {"r"}
    /\ trace' = Append(trace, "close_r")
    /\ Abort
    /\ UNCHANGED <<fstate, disk, content, printed>>

\* variant of lines 4-5 without the with statement: f is never closed
CloseReadLeak ==
    /\ pc = "close_r"
    /\ trace' = Append(trace, "close_r")
    /\ pc' = "strip"
    /\ UNCHANGED <<fstate, disk, content, handles, printed, exitStatus>>

\* end of the with block of lines 4-5
CloseRead ==
    /\ pc = "close_r"
    /\ handles' = handles \ {"r"}
    /\ trace' = Append(trace, "close_r")
    /\ pc' = "strip"
    /\ UNCHANGED <<fstate, disk, content, printed, exitStatus>>

\* line 8
StripStep ==
    /\ pc = "strip"
    /\ content' = StripRecommended(content)
    /\ trace' = Append(trace, "strip")
    /\ pc' = "collapse"
    /\ UNCHANGED <<fstate, disk, handles, printed, exitStatus>>

\* line 11
CollapseStep ==
    /\ pc = "collapse"
    /\ content' = CollapseCommas(content)
    /\ trace' = Append(trace, "collapse")
    /\ pc' = "trailing"
    /\ UNCHANGED <<fstate, disk, handles, printed, exitStatus>>

\* line 12
TrailingStep ==
    /\ pc = "trailing"
    /\ content' = DropCommaBeforeBrace(content)
    /\ trace' = Append(trace, "trailing")
    /\ pc' = "open_w"
    /\ UNCHANGED <<fstate, disk, handles, printed, exitStatus>>

\* line 15: open(..., 'w', ...) truncates the file
OpenWrite ==
    /\ pc = "open_w"
    /\ fstate # "readonly"
    /\ disk' = <<>>
    /\ handles' = handles \cup {"w"}
    /\ trace' = Append(trace, "open_w")
    /\ pc' = "write"
    /\ UNCHANGED <<fstate, content, printed, exitStatus>>

\* line 15 raising PermissionError
OpenWriteFail ==
    /\ pc = "open_w"
    /\ fstate = "readonly"
    /\ Abort
    /\ UNCHANGED <<fstate, disk, content, handles, printed, trace>>

\* line 16: f.write(content); newline='\n' writes every "\n" as it is
WriteAll ==
    /\ pc = "write"
    /\ disk' = content
    /\ trace' = Append(trace, "write")
    /\ pc' = "close_w"
    /\ UNCHANGED <<fstate, content, handles, printed, exitStatus>>

\* line 16 raising OSError (no space left, I/O error): the file stays
\* truncated and the with statement closes f on the way out
WriteFail ==
    /\ pc = "write"
    /\ handles' = handles \ {"w"}
    /\ trace' = Append(trace, "close_w")
    /\ Abort
    /\ UNCHANGED <<fstate, disk, content, printed>>

\* end of the with block of lines 15-16
CloseWrite ==
    /\ pc = "close_w"
    /\ handles' = handles \ {"w"}
    /\ trace' = Append(trace, "close_w")
    /\ pc' = "print"
    /\ UNCHANGED <<fstate, disk, content, printed, exitStatus>>

\* line 18, then the end of the script
PrintDone ==
    /\ pc = "print"
    /\ printed' = printed + 1
    /\ trace' = Append(trace, "print")
    /\ pc' = "done"
    /\ exitStatus' = 0
    /\ UNCHANGED <<fstate, disk, content, handles>>

\* line 18 raising UnicodeEncodeError: a standard output whose encoding has
\* no check-mark character
PrintFail ==
    /\ pc = "print"
    /\ Abort
    /\ UNCHANGED <<fstate, disk, content, handles, printed, trace>>

\* the script is started again on the file the last process left
Rerun ==
    /\ pc \in {"done", "failed"}
    /\ content' = <<>>
    /\ handles' = {}
    /\ printed' = 0
    /\ exitStatus' = -1
    /\ trace' = <<>>
    /\ pc' = "open_r"
    /\ UNCHANGED <<fstate, disk>>

Next ==
    \/ OpenRead
    \/ OpenReadFail
    \/ ReadAll
    \/ ReadFail
    \/ CloseRead
    \/ StripStep
    \/ CollapseStep
    \/ TrailingStep
    \/ OpenWrite
    \/ OpenWriteFail
    \/ WriteAll
    \/ WriteFail
    \/ CloseWrite
    \/ PrintDone
    \/ PrintFail
    \/ Rerun

Spec == Init /\ [][Next]_vars

----------------------------------------------------------------------------
(* Vocabulary of the claims *)

Range(s) == {s[i] : i \in DOMAIN s}

AllSpace(s, lo, hi) == \A k \in lo..hi : s[k] \in Whitespace

\* the lines of a text: the pieces between its line feeds
RECURSIVE Lines(_)
Lines(s) ==
    IF "\n" \notin Range(s) THEN <<s>>
    ELSE LET k == CHOOSE i \in 1..Len(s) :
                      s[i] = "\n" /\ \A j \in 1..(i - 1) : s[j] # "\n"
         IN  <<SubSeq(s, 1, k - 1)>> \o Lines(SubSeq(s, k + 1, Len(s)))

\* a line without its leading and trailing whitespace
Trim(l) ==
    LET solid == {i \in 1..Len(l) : l[i] \notin Whitespace}
    IN  IF solid = {} THEN <<>>
        ELSE SubSeq(l, CHOOSE i \in solid : \A j \in solid : i <= j, Max(solid))

\* a line that, trimmed, is `recommended: true` or `recommended: false`,
\* with or without one trailing comma
IsFlagLine(l) ==
    Trim(l) \in {<<REC, " ", "true">>, <<REC, " ", "true", ",">>,
                 <<REC, " ", "false">>, <<REC, " ", "false", ",">>}

\* a line that holds a flag however it is spaced: whitespace, recommended:,
\* whitespace, true or false, at most one comma, whitespace
IsSpacedFlagLine(l) ==
    \E a \in 1..Len(l) : \E b \in (a + 1)..Len(l) :
        /\ AllSpace(l, 1, a - 1) /\ l[a] = REC
        /\ AllSpace(l, a + 1, b - 1) /\ l[b] \in {"true", "false"}
        /\ \/ AllSpace(l, b + 1, Len(l))
           \/ b < Len(l) /\ l[b + 1] = "," /\ AllSpace(l, b + 2, Len(l))

NotSpacedFlagLine(l) == ~IsSpacedFlagLine(l)

\* the lines of a text that hold no flag, in order
OtherLines(s) == SelectSeq(Lines(s), NotSpacedFlagLine)

\* some span of the text is what line 8's pattern describes: from a line
\* start, whitespace, recommended:, whitespace, true or false, at most one
\* comma, whitespace, up to and including a line feed
HasFlagSpan(s) ==
    \E a \in 1..Len(s) : \E b \in (a + 1)..Len(s) : \E j \in (b + 1)..Len(s) :
        /\ s[a] = REC /\ s[b] \in {"true", "false"} /\ s[j] = "\n"
        /\ AllSpace(s, a + 1, b - 1)
        /\ \/ AllSpace(s, b + 1, j)
           \/ s[b + 1] = "," /\ AllSpace(s, b + 2, j)
        /\ \E i \in 1..a : AllSpace(s, i, a - 1) /\ (i = 1 \/ s[i - 1] = "\n")

\* position i holds a comma and, after optional whitespace, one of `what`
CommaThenAt(s, i, what) ==
    /\ s[i] = ","
    /\ \E j \in (i + 1)..Len(s) : s[j] \in what /\ AllSpace(s, i + 1, j - 1)

HasCommaPair(s) == \E i \in 1..Len(s) : CommaThenAt(s, i, {","})

HasCommaBeforeBrace(s) == \E i \in 1..Len(s) : CommaThenAt(s, i, {"}"})

\* three or more commas separated only by whitespace
HasTripleRun(s) ==
    \E i \in 1..Len(s) : \E j \in (i + 1)..Len(s) :
        /\ CommaThenAt(s, i, {","}) /\ s[j] = "," /\ AllSpace(s, i + 1, j - 1)
        /\ CommaThenAt(s, j, {","})

\* the text with every comma that stands before whitespace and } left out
RECURSIVE WithoutCommasBeforeBrace(_)
WithoutCommasBeforeBrace(s) ==
    IF s = <<>> THEN <<>>
    ELSE (IF CommaThenAt(s, 1, {"}"}) THEN <<>> ELSE <<s[1]>>)
         \o WithoutCommasBeforeBrace(Tail(s))

\* a can be had from b by deleting characters
RECURSIVE IsSubseq(_, _)
IsSubseq(a, b) ==
    IF a = <<>> THEN TRUE
    ELSE IF b = <<>> THEN FALSE
    ELSE IF a[1] = b[1] THEN IsSubseq(Tail(a), Tail(b))
    ELSE IsSubseq(a, Tail(b))

IsSolid(c) == c # "," /\ c \notin Whitespace

\* the text without its commas and its whitespace
Solid(s) == SelectSeq(s, IsSolid)

CommaCount(s) == Cardinality({i \in 1..Len(s) : s[i] = ","})

\* the commas of the text are n adjacent ones, and what follows them is not
\* whitespace and }
IsSingleRun(s, n) ==
    \E i \in 1..Len(s) :
        /\ i + n - 1 <= Len(s)
        /\ \A k \in 1..Len(s) : (s[k] = ",") <=> (i <= k /\ k <= i + n - 1)
        /\ ~CommaThenAt(s, i + n - 1, {"}"})

\* While the script has not opened the file for writing, the file still
\* holds what was read: the text read and the texts after line 8 and line 11
TextRead == UniversalNewlines(disk)

AfterStrip == StripRecommended(TextRead)

AfterCollapse == CollapseCommas(AfterStrip)

\* lines 8-12 are done and line 15 has not run: content is the text that
\* line 16 writes
Transformed == pc = "open_w"

\* the order of the steps of a run that succeeds
FullOrder ==
    <<"open_r", "read", "close_r", "strip", "collapse", "trailing",
      "open_w", "write", "close_w", "print">>

ReadFailing == {"missing", "unreadable", "undecodable"}

----------------------------------------------------------------------------
(* The claims *)

\* C1: for every input text, the written text contains no line that, after
\* trimming leading and trailing whitespace, equals `recommended: true` or
\* `recommended: false`, with or without one trailing comma; a matching last
\* line without a trailing newline included.
C1_NoFlagLineWritten ==
    pc \in {"close_w", "print", "done"} =>
        \A k \in 1..Len(Lines(disk)) : ~IsFlagLine(Lines(disk)[k])

\* C2: line 8 removes only matching lines: every line that holds no flag
\* (blank lines next to a flag line, `recommended:` with `true,` on the next
\* line) is still there, in the same order, after line 8.
C2_OnlyFlagLinesRemoved ==
    pc = "collapse" => OtherLines(content) = OtherLines(TextRead)

\* C3 as claimed: for every input text with no line holding a flag, the text
\* written back equals the text read (after newline normalisation).
C3_RoundTrip ==
    Transformed =>
        ((\A k \in 1..Len(Lines(TextRead)) : ~IsSpacedFlagLine(Lines(TextRead)[k]))
            => content = TextRead)

\* C3 as amended: for every input text in which line 8's pattern matches
\* nowhere and which holds no comma followed by optional whitespace and then
\* a comma or a closing brace, the text written back equals the text read
\* (after newline normalisation).
C3_RoundTripAmended ==
    Transformed =>
        ((~HasFlagSpan(TextRead) /\ ~HasCommaPair(TextRead)
              /\ ~HasCommaBeforeBrace(TextRead))
            => content = TextRead)

\* a stored text with a carriage return, a comma, a brace and `recommended:`
\* that comes back as it was read
C3_Witness ==
    /\ Transformed
    /\ ~HasFlagSpan(TextRead) /\ ~HasCommaPair(TextRead)
    /\ ~HasCommaBeforeBrace(TextRead)
    /\ {REC, ",", "\n"} \subseteq Range(TextRead)
    /\ "\r" \in Range(disk)
    /\ content = TextRead

\* C4: applying lines 8-12 to the already transformed text gives the same
\* text again, except for inputs in which the text reaching line 11 holds a
\* run of three or more commas separated only by whitespace.
C4_Idempotent ==
    Transformed => (HasTripleRun(AfterStrip) \/ Transform(content) = content)

\* C5 as claimed: Example 2 yields foo: 1,\n  bar: 2,\n} with the comma
\* after `bar: 2` unchanged.
C5_Example2AsClaimed ==
    (Transformed /\ TextRead = Example2) =>
        content = <<"foo:", " ", "1", ",", "\n",
                    " ", " ", "bar:", " ", "2", ",", "\n", "}">>

\* C5 as amended: Example 2 yields foo: 1,\n  bar: 2\n}: the matching line
\* is removed and so is the comma after `bar: 2`, which stands before the
\* closing brace; the rest is unchanged.
C5_Example2Result ==
    (Transformed /\ TextRead = Example2) =>
        content = <<"foo:", " ", "1", ",", "\n",
                    " ", " ", "bar:", " ", "2", "\n", "}">>

C5_Witness ==
    /\ Transformed
    /\ disk = Example2
    /\ Len(content) = Len(Example2) - 8

\* C6 as claimed: for every input the written text holds no comma that is
\* followed only by whitespace and then a closing brace.
C6_NoCommaBeforeBrace ==
    Transformed => ~HasCommaBeforeBrace(content)

\* C6 as amended: every comma that, in the text reaching line 12, is followed
\* by optional whitespace and a closing brace is removed, the whitespace and
\* the brace are kept and nothing else changes; the written text holds no
\* comma followed only by whitespace and a closing brace unless the text
\* reaching line 11 held three or more commas separated only by whitespace.
C6_CommaBeforeBraceRemoved ==
    Transformed =>
        /\ content = WithoutCommasBeforeBrace(AfterCollapse)
        /\ ~HasTripleRun(AfterStrip) => ~HasCommaBeforeBrace(content)

\* a comma, whitespace and a brace reached line 12 and the comma went
C6_Witness ==
    /\ Transformed
    /\ ~HasTripleRun(AfterStrip)
    /\ \E i \in 1..Len(AfterCollapse) :
           /\ CommaThenAt(AfterCollapse, i, {"}"})
           /\ i < Len(AfterCollapse) /\ AfterCollapse[i + 1] \in Whitespace
    /\ Len(content) = Len(AfterCollapse) - 1

\* C7: when reading the file fails (missing, unreadable, not UTF-8) the run
\* ends with a nonzero exit status, never gets to the transformation or to
\* opening the file for writing -- the only steps that change the file are
\* lines 15 and 16 -- and prints no success message; when every step
\* succeeds the exit status is 0 and exactly one line was printed.
C7_RunOutcome ==
    /\ fstate \in ReadFailing =>
           /\ pc \in {"open_r", "read", "failed"}
           /\ "open_w" \notin Range(trace) /\ "w" \notin handles
           /\ printed = 0
           /\ exitStatus # 0
           /\ pc = "failed" => exitStatus > 0
    /\ pc = "done" <=> trace = FullOrder
    /\ pc = "done" => exitStatus = 0 /\ printed = 1
    /\ exitStatus = 0 => pc = "done"

\* the read of a file that is not UTF-8 failed
C7_Witness ==
    /\ fstate = "undecodable"
    /\ pc = "failed"
    /\ trace = <<"open_r", "close_r">>
    /\ exitStatus = 1

C9_OrderAndHandles ==
    /\ IsSubseq(trace, FullOrder)
    /\ pc = "done" => trace = FullOrder
    /\ Cardinality(handles) <= 1
    /\ ("w" \in handles \/ "write" \in Range(trace)) =>
           ("close_r" \in Range(trace) /\ "r" \notin handles)
    /\ pc \in {"done", "failed"} => handles = {}
    /\ printed > 0 => ("close_w" \in Range(trace) /\ handles = {})

\* a run that succeeded, every handle closed
C9_Witness ==
    /\ pc = "done"
    /\ Len(trace) = Len(FullOrder)
    /\ handles = {}
    /\ printed = 1

\* C10: the written text is a subsequence of the text read and never longer;
\* each of lines 8, 11 and 12 only deletes characters; every character that
\* lines 11 and 12 delete is a comma or whitespace.
C10_DeletionOnly ==
    /\ pc = "collapse" => IsSubseq(content, TextRead)
    /\ pc = "trailing" =>
           IsSubseq(content, AfterStrip) /\ Solid(content) = Solid(AfterStrip)
    /\ Transformed =>
           /\ IsSubseq(content, AfterCollapse)
           /\ IsSubseq(content, TextRead)
           /\ Len(content) <= Len(TextRead)
           /\ Solid(content) = Solid(AfterStrip)

\* each of the three substitutions deleted something
C10_Witness ==
    /\ Transformed
    /\ Len(AfterStrip) < Len(TextRead)
    /\ Len(AfterCollapse) < Len(AfterStrip)
    /\ Len(content) < Len(AfterCollapse)

====
